---- MODULE Spec2Model ----
(***************************************************************************)
(* A model of the skip list of src/src/skiplist.rs.                        *)
(*                                                                         *)
(* SkipList wraps SkipListInner in one Arc<RwLock<..>>: insert, erase and  *)
(* clear run under its write lock, contains, size and empty under its read *)
(* lock.  Nodes live in an arena (NodeIds); a forward reference is a node  *)
(* id, NIL is the Nil node every chain ends in, and None is Option::None.  *)
(* A mutation is modelled step by step (one step per loop iteration and    *)
(* per locked block of the source), so that the states between its writes  *)
(* exist in the model and the list lock is what hides them.                *)
(***************************************************************************)
EXTENDS Integers, Sequences, FiniteSets, TLC

\* ---------------------------------------------------------------- bounds
\* const generic MAX_HEIGHT of SkipList (14 by default), instantiated small
MAX_HEIGHT == 3
\* keys the callers of the unconstrained specification draw from: 1..MaxKey
MaxKey == 3
\* worker threads sharing the list
NumThreads == 2
\* calls of next_u32 the height oracle may make in one behaviour
MaxDraws == 5
\* size K of the key range of one worker in the range scenarios
RangeSize == 2
\* keys pre-inserted beyond the workers' ranges in the erase scenario
Spare == 1
\* calls one worker makes in the mixed scenario
MaxCalls == 3

\* ---------------------------------------------------------------- values
Header == 0
NIL == -1
None == -2
NoThread == -1
Main == 0

Max(a, b) == IF a > b THEN a ELSE b

Threads == 1..NumThreads
AllThreads == {Main} \cup Threads
Keys == 1..MaxKey
RangeKeys == 1..(NumThreads * RangeSize)
PreKeys == 1..(NumThreads * RangeSize + Spare)
AllKeys == 1..Max(MaxKey, NumThreads * RangeSize + Spare)
\* one arena slot per key and one to spare
NodeIds == 1..(Max(MaxKey, NumThreads * RangeSize + Spare) + 1)
Nodes == {Header} \cup NodeIds
Levels == 0..(MAX_HEIGHT - 1)

Own(t) == ((t - 1) * RangeSize + 1)..(t * RangeSize)

VARIABLES
    links,      \* node -> its Vec of forward references (links[n][i+1] is level i)
    keyOf,      \* entry node -> its key (0: slot not allocated)
    height,     \* SkipListInner.height, the occupied height
    size,       \* SkipListInner.size
    rng,        \* number of next_u32 calls made on SkipListInner.rng
    writer,     \* the thread holding the list's write lock, or NoThread
    readers,    \* the threads holding the list's read lock
    loc,        \* thread -> its call in progress (pc and local variables)
    abs,        \* history: keys whose insert returned true, minus erased and cleared
    nIns,       \* history: inserts that returned true since construction or clear
    nErs,       \* history: erases that returned true since construction or clear
    drawn,      \* history: entry node -> the height random_height drew for it
    pos,        \* scenario driver: calls the thread has started
    mine        \* scenario driver: thread -> its own keys it last left in the list

vars == <<links, keyOf, height, size, rng, writer, readers, loc, abs, nIns, nErs, drawn,
          pos, mine>>
list == <<links, keyOf, height, size, rng>>
hist == <<abs, nIns, nErs, drawn>>
drv == <<pos, mine>>

\* ---------------------------------------------------------------- Node
\* The `height` field of Node::Header and Node::Inner is written by set_next and
\* clear and read by Display and by Node::height of the header only; no
\* operation of the list reads it and it is not part of the state here.  The
\* height of an entry, Node::height, is links.len(): Len(links[n]).
HeaderLinks == [i \in 1..MAX_HEIGHT |-> NIL]

is_nil(n) == n = NIL

\* Node::next
next(n, level) ==
    IF n = NIL THEN None
    ELSE IF level < Len(links[n]) THEN links[n][level + 1]
    ELSE None

\* compare_key with the operands swapped: key.cmp(node_key)
compare_key_swapped(n, key) ==
    IF n \in NodeIds
    THEN IF key < keyOf[n] THEN "Less"
         ELSE IF keyOf[n] = key THEN "Equal" ELSE "Greater"
    ELSE "None"

\* Node::compare_key: node_key.cmp(key)
compare_key(n, key) ==
    IF n \in NodeIds
    THEN IF keyOf[n] < key THEN "Less"
         ELSE IF keyOf[n] = key THEN "Equal" ELSE "Greater"
    ELSE "None"

\* Node::set_next: the links after n's slot `level` is set to nx
set_next(n, level, nx) ==
    IF n = NIL THEN links
    ELSE IF level < Len(links[n])
    THEN [links EXCEPT ![n][level + 1] = nx]
    ELSE [links EXCEPT ![n] = @ \o [j \in 1..(level + 1 - Len(@)) |-> nx]]

\* ---------------------------------------------------------------- Arc
Range(s) == {s[i] : i \in 1..Len(s)}

Succs(L, S) == UNION {Range(L[m]) : m \in S \cap Nodes}

RECURSIVE Reach(_, _)
Reach(L, S) ==
    LET T == S \cup (Succs(L, S) \cap Nodes)
    IN  IF T = S THEN S ELSE Reach(L, T)

\* the nodes a call's local variables hold an Arc of
Held(l) == (Range(l.update) \cup {l.cur, l.newn, l.del, l.dnx}) \cap NodeIds

\* the nodes some Arc still reaches once thread t has let go of its locals
Alive(L, t) == Reach(L, {Header} \cup UNION {Held(loc[u]) : u \in AllThreads \ {t}})

\* dropping the last Arc of a node frees it
DropLinks(L, t) ==
    LET live == Alive(L, t)
    IN  [n \in Nodes |-> IF n \in live THEN L[n] ELSE <<>>]
DropKeys(L, t) ==
    LET live == Alive(L, t)
    IN  [n \in NodeIds |-> IF n \in live THEN keyOf[n] ELSE 0]
DropDrawn(L, t) ==
    LET live == Alive(L, t)
    IN  [n \in NodeIds |-> IF n \in live THEN drawn[n] ELSE 0]

\* Arc::new: a slot no Arc refers to (the slot named after the key when it is free)
FreeIds == NodeIds \ Reach(links, {Header} \cup UNION {Held(loc[u]) : u \in AllThreads})
NewArc(key) ==
    LET free == FreeIds
    IN  IF key \in free THEN key
        ELSE CHOOSE n \in free : \A m \in free : n <= m

\* ---------------------------------------------------------------- RwLock
\* a write lock that waits for readers but not for another writer
CanWrite_readers_only == readers = {}
\* a read lock that does not wait for a writer
CanRead_always == TRUE

\* RwLock::write succeeds
CanWrite == writer = NoThread /\ readers = {}
\* RwLock::read succeeds
CanRead == writer = NoThread

\* ---------------------------------------------------------------- traversal
\* the loop of trace at one level: where it stops and whether it met the key
RECURSIVE trace_walk(_, _, _)
trace_walk(cur, level, key) ==
    LET nx == next(cur, level)
    IN  IF nx = None THEN [cur |-> cur, hit |-> FALSE]
        ELSE IF compare_key(nx, key) = "Less" THEN trace_walk(nx, level, key)
        ELSE IF compare_key(nx, key) = "Equal" THEN [cur |-> cur, hit |-> TRUE]
        ELSE [cur |-> cur, hit |-> FALSE]

\* array::from_fn of trace: entry i of update is the stop at level MAX_HEIGHT - i - 1
RECURSIVE trace_from(_, _, _, _, _)
\* trace_from that walks the levels below self.height only
trace_from_occupied(i, cur, found, key, update) ==
    IF i = MAX_HEIGHT
    THEN [update |-> update, cur |-> cur, found |-> found]
    ELSE IF MAX_HEIGHT - i - 1 >= height
    THEN trace_from(i + 1, cur, found, key, Append(update, cur))
    ELSE CHOOSE r \in {trace_from(i + 1, w.cur, found \/ w.hit, key, Append(update, w.cur)) :
                         w \in {trace_walk(cur, MAX_HEIGHT - i - 1, key)}} : TRUE

trace_from(i, cur, found, key, update) ==
    IF i = MAX_HEIGHT
    THEN [update |-> update, cur |-> cur, found |-> found]
    ELSE \* w is the walk of this level, evaluated once
         CHOOSE r \in {trace_from(i + 1, w.cur, found \/ w.hit, key, Append(update, w.cur)) :
                         w \in {trace_walk(cur, MAX_HEIGHT - i - 1, key)}} : TRUE

\* SkipListInner::trace
trace(key) == trace_from(0, Header, FALSE, key, <<>>)

\* the level-0 predecessor taken for every level
pred_at_level0(update, i) == update[MAX_HEIGHT]

\* update[MAX_HEIGHT - i - 1] of the source (0-based) is update[MAX_HEIGHT - i] here
pred_at(update, i) == update[MAX_HEIGHT - i]

\* the loop of find at one level
RECURSIVE find_walk(_, _, _)
find_walk(cur, level, key) ==
    LET nx == next(cur, level)
    IN  IF nx = None THEN [cur |-> cur, hit |-> None]
        ELSE IF compare_key(nx, key) = "Less" THEN find_walk(nx, level, key)
        ELSE IF compare_key(nx, key) = "Equal" THEN [cur |-> cur, hit |-> nx]
        ELSE [cur |-> cur, hit |-> None]

\* find that looks at its first level only
find_from_top(level, cur, key) ==
    IF level < 0 THEN None ELSE find_walk(cur, level, key).hit

RECURSIVE find_from(_, _, _)
find_from(level, cur, key) ==
    IF level < 0 THEN None
    ELSE LET w == find_walk(cur, level, key)
         IN  IF w.hit # None THEN w.hit ELSE find_from(level - 1, w.cur, key)

\* SkipListInner::find
find(key) == find_from(height - 1, Header, key)

\* SkipListInner::contains
contains(key) == find(key) # None

\* SkipListInner::empty
empty == size = 0

\* the results of `rng.next_u32() % 4 == 0` one call of random_height may get
Flips == [1..MAX_HEIGHT -> BOOLEAN]

\* the loop condition of random_height with its bound off by one
random_height_more_late(h, flips) == h < MAX_HEIGHT + 1 /\ flips[h]

\* the loop condition of random_height; flips[h] is the result of the h-th call
random_height_more(h, flips) == h < MAX_HEIGHT /\ flips[h]

RECURSIVE random_height_from(_, _)
random_height_from(h, flips) ==
    IF random_height_more(h, flips) THEN random_height_from(h + 1, flips) ELSE h

\* SkipListInner::random_height
random_height(flips) == random_height_from(1, flips)

\* next_u32 calls of random_height when it returns h
draws(h) == IF h < MAX_HEIGHT THEN h ELSE MAX_HEIGHT - 1

\* ---------------------------------------------------------------- calls
IdleLoc ==
    [pc |-> "idle", op |-> "none", key |-> 0, update |-> <<>>, cur |-> None,
     found |-> FALSE, newh |-> 0, newn |-> None, lvl |-> 0, del |-> None,
     dnx |-> None,
     ret |-> FALSE, retn |-> 0, exp |-> FALSE,
     preKeys |-> {}, preSize |-> 0, preHeight |-> 0]

\* the keys of the nodes in the arena
KeysIn == {keyOf[n] : n \in NodeIds} \ {0}

\* the keys contains answers true for (find returns only a node that holds the key)
Members == {k \in KeysIn : contains(k)}

StartLoc(op, key, pc, exp) ==
    [IdleLoc EXCEPT !.pc = pc, !.op = op, !.key = key, !.exp = exp,
                    !.preKeys = Members, !.preSize = size, !.preHeight = height]

At(t, pc) == loc[t].pc = pc

Init ==
    /\ links = [n \in Nodes |-> IF n = Header THEN HeaderLinks ELSE <<>>]
    /\ keyOf = [n \in NodeIds |-> 0]
    /\ height = 1
    /\ size = 0
    /\ rng = 0
    /\ writer = NoThread
    /\ readers = {}
    /\ loc = [t \in AllThreads |-> IdleLoc]
    /\ abs = {}
    /\ nIns = 0
    /\ nErs = 0
    /\ drawn = [n \in NodeIds |-> 0]
    /\ pos = [t \in AllThreads |-> 0]
    /\ mine = [t \in AllThreads |-> {}]

\* StartInsert that does not wait for the write lock
StartInsert_nowait(t, k, exp) ==
    /\ At(t, "idle")
    /\ writer' = t
    /\ loc' = [loc EXCEPT ![t] = StartLoc("insert", k, "ins_trace", exp)]
    /\ UNCHANGED <<list, readers, hist>>

\* SkipList::insert up to the write lock
StartInsert(t, k, exp) ==
    /\ At(t, "idle")
    /\ CanWrite
    /\ writer' = t
    /\ loc' = [loc EXCEPT ![t] = StartLoc("insert", k, "ins_trace", exp)]
    /\ UNCHANGED <<list, readers, hist>>

\* InsTrace without the early return on a match
InsTrace_always(t) ==
    /\ At(t, "ins_trace")
    /\ \E r \in {trace(loc[t].key)} :
           loc' = [loc EXCEPT ![t].update = r.update, ![t].cur = r.cur,
                              ![t].found = r.found,
                              ![t].ret = FALSE,
                              ![t].pc = "ins_draw"]
    /\ UNCHANGED <<list, writer, readers, hist, drv>>

\* InsTrace that draws from the oracle before it looks at the match
InsTrace_draws(t) ==
    /\ At(t, "ins_trace")
    /\ \E r \in {trace(loc[t].key)} :
           loc' = [loc EXCEPT ![t].update = r.update, ![t].cur = r.cur,
                              ![t].found = r.found,
                              ![t].ret = FALSE,
                              ![t].pc = IF r.found THEN "ret" ELSE "ins_draw"]
    /\ rng' = rng + 1
    /\ UNCHANGED <<links, keyOf, height, size, writer, readers, hist, drv>>

\* insert: trace, and the early return on a match
InsTrace(t) ==
    /\ At(t, "ins_trace")
    /\ \E r \in {trace(loc[t].key)} :
           loc' = [loc EXCEPT ![t].update = r.update, ![t].cur = r.cur,
                              ![t].found = r.found,
                              ![t].ret = FALSE,
                              ![t].pc = IF r.found THEN "ret" ELSE "ins_draw"]
    /\ UNCHANGED <<list, writer, readers, hist, drv>>

\* insert: random_height, the raise of self.height, and the new node
InsDraw(t) ==
    /\ At(t, "ins_draw")
    /\ FreeIds # {}
    /\ \E flips \in Flips :
        LET h == random_height(flips)
            n == NewArc(loc[t].key)
        IN  /\ rng' = rng + draws(h)
            /\ drawn' = [drawn EXCEPT ![n] = h]
            /\ height' = IF h > height THEN h ELSE height
            /\ keyOf' = [keyOf EXCEPT ![n] = loc[t].key]
            /\ links' = [links EXCEPT ![n] = <<>>]
            /\ loc' = [loc EXCEPT ![t].newh = h, ![t].newn = n, ![t].lvl = 0,
                                  ![t].pc = "ins_read"]
    /\ UNCHANGED <<size, writer, readers, abs, nIns, nErs, drv>>

\* InsRead that leaves the new node's slot unset
InsRead_skip(t) ==
    /\ At(t, "ins_read")
    /\ loc' = [loc EXCEPT ![t].pc = "ins_write"]
    /\ UNCHANGED <<list, writer, readers, hist, drv>>

\* insert, level i: copy the predecessor's successor into the new node
InsRead(t) ==
    /\ At(t, "ins_read")
    /\ LET i == loc[t].lvl
           p == pred_at(loc[t].update, i)
       IN  links' = IF next(p, i) # None
                    THEN set_next(loc[t].newn, i, next(p, i))
                    ELSE links
    /\ loc' = [loc EXCEPT ![t].pc = "ins_write"]
    /\ UNCHANGED <<keyOf, height, size, rng, writer, readers, hist, drv>>

\* InsWrite that publishes the new node at level 0 only
InsWrite_level0(t) ==
    /\ At(t, "ins_write")
    /\ LET i == loc[t].lvl
           p == pred_at(loc[t].update, i)
       IN  /\ links' = IF i = 0 THEN set_next(p, i, loc[t].newn) ELSE links
           /\ loc' = [loc EXCEPT ![t].lvl = i + 1,
                                 ![t].pc = IF i + 1 < loc[t].newh
                                           THEN "ins_read" ELSE "ins_size"]
    /\ UNCHANGED <<keyOf, height, size, rng, writer, readers, hist, drv>>

\* insert, level i: point the predecessor at the new node
InsWrite(t) ==
    /\ At(t, "ins_write")
    /\ LET i == loc[t].lvl
           p == pred_at(loc[t].update, i)
       IN  /\ links' = set_next(p, i, loc[t].newn)
           /\ loc' = [loc EXCEPT ![t].lvl = i + 1,
                                 ![t].pc = IF i + 1 < loc[t].newh
                                           THEN "ins_read" ELSE "ins_size"]
    /\ UNCHANGED <<keyOf, height, size, rng, writer, readers, hist, drv>>

\* insert: self.size += 1; true
InsSize(t) ==
    /\ At(t, "ins_size")
    /\ size' = size + 1
    /\ loc' = [loc EXCEPT ![t].ret = TRUE, ![t].pc = "ret"]
    /\ UNCHANGED <<links, keyOf, height, rng, writer, readers, hist, drv>>

\* StartErase that does not wait for the write lock
StartErase_nowait(t, k, exp) ==
    /\ At(t, "idle")
    /\ writer' = t
    /\ loc' = [loc EXCEPT ![t] = StartLoc("erase", k, "era_trace", exp)]
    /\ UNCHANGED <<list, readers, hist>>

\* SkipList::erase up to the write lock
StartErase(t, k, exp) ==
    /\ At(t, "idle")
    /\ CanWrite
    /\ writer' = t
    /\ loc' = [loc EXCEPT ![t] = StartLoc("erase", k, "era_trace", exp)]
    /\ UNCHANGED <<list, readers, hist>>

\* erase: trace, the early return without a match, and node_to_delete
EraTrace(t) ==
    /\ At(t, "era_trace")
    /\ \E r \in {trace(loc[t].key)} : \E d \in {next(r.cur, 0)} :
           loc' = [loc EXCEPT ![t].update = r.update, ![t].cur = r.cur,
                              ![t].found = r.found,
                              ![t].ret = FALSE,
                              ![t].del = IF r.found THEN d ELSE None,
                              ![t].lvl = MAX_HEIGHT - 1,
                              ![t].pc = IF ~r.found THEN "ret"
                                        ELSE IF d = None THEN "panic"
                                        ELSE "era_unlink"]
    /\ UNCHANGED <<list, writer, readers, hist, drv>>

\* EraUnlink that looks for node_to_delete at level 0 only
EraUnlink_level0(t) ==
    /\ At(t, "era_unlink")
    /\ LET i == loc[t].lvl
           p == pred_at(loc[t].update, i)
           d == loc[t].del
       IN  loc' = IF i = 0 /\ next(p, i) # None /\ next(p, i) = d
                  THEN [loc EXCEPT ![t].dnx = next(d, i), ![t].pc = "era_write"]
                  ELSE [loc EXCEPT ![t].lvl = IF i > 0 THEN i - 1 ELSE 0,
                                   ![t].pc = IF i > 0 THEN "era_unlink" ELSE "era_size"]
    /\ UNCHANGED <<list, writer, readers, hist, drv>>

\* erase, level i: does the predecessor still point at node_to_delete? if so,
\* read node_to_delete's successor
EraUnlink(t) ==
    /\ At(t, "era_unlink")
    /\ LET i == loc[t].lvl
           p == pred_at(loc[t].update, i)
           d == loc[t].del
       IN  loc' = IF next(p, i) # None /\ next(p, i) = d
                  THEN [loc EXCEPT ![t].dnx = next(d, i), ![t].pc = "era_write"]
                  ELSE [loc EXCEPT ![t].lvl = IF i > 0 THEN i - 1 ELSE 0,
                                   ![t].pc = IF i > 0 THEN "era_unlink" ELSE "era_size"]
    /\ UNCHANGED <<list, writer, readers, hist, drv>>

\* erase, level i: point the predecessor at node_to_delete's successor
EraWrite(t) ==
    /\ At(t, "era_write")
    /\ LET i == loc[t].lvl
           p == pred_at(loc[t].update, i)
       IN  /\ links' = IF loc[t].dnx # None
                       THEN set_next(p, i, loc[t].dnx)
                       ELSE links
           /\ loc' = [loc EXCEPT ![t].dnx = None,
                                 ![t].lvl = IF i > 0 THEN i - 1 ELSE 0,
                                 ![t].pc = IF i > 0 THEN "era_unlink" ELSE "era_size"]
    /\ UNCHANGED <<keyOf, height, size, rng, writer, readers, hist, drv>>

\* EraSize without the decrement
EraSize_keep(t) ==
    /\ At(t, "era_size")
    /\ loc' = [loc EXCEPT ![t].pc = "era_trim"]
    /\ UNCHANGED <<list, writer, readers, hist, drv>>

\* erase: self.size -= 1
EraSize(t) ==
    /\ At(t, "era_size")
    /\ size' = IF size > 0 THEN size - 1 ELSE size
    /\ loc' = [loc EXCEPT ![t].pc = IF size > 0 THEN "era_trim" ELSE "panic"]
    /\ UNCHANGED <<links, keyOf, height, rng, writer, readers, hist, drv>>

\* the guard of the arm of erase's last loop that lowers self.height
trim_more ==
    LET nx == next(Header, height - 1)
    IN  nx # None /\ ~is_nil(nx) /\ height > 1

\* EraTrim whose loop does not lower self.height
EraTrim_keep(t) ==
    /\ At(t, "era_trim")
    /\ height' = height
    /\ loc' = IF trim_more THEN loc ELSE [loc EXCEPT ![t].ret = TRUE, ![t].pc = "ret"]
    /\ UNCHANGED <<links, keyOf, size, rng, writer, readers, hist, drv>>

\* erase: one turn of the loop that lowers self.height; true
EraTrim(t) ==
    /\ At(t, "era_trim")
    /\ IF trim_more
       THEN /\ height' = height - 1
            /\ loc' = loc
       ELSE /\ height' = height
            /\ loc' = [loc EXCEPT ![t].ret = TRUE, ![t].pc = "ret"]
    /\ UNCHANGED <<links, keyOf, size, rng, writer, readers, hist, drv>>

\* SkipList::clear up to the write lock
StartClear(t) ==
    /\ At(t, "idle")
    /\ CanWrite
    /\ writer' = t
    /\ loc' = [loc EXCEPT ![t] = StartLoc("clear", 0, "clr_header", FALSE)]
    /\ UNCHANGED <<list, readers, hist>>

\* Node::clear that resets slot 0 only
header_clear_level0 == [links EXCEPT ![Header][1] = NIL]

\* Node::clear of the header: every slot refers to a new Nil
header_clear == [links EXCEPT ![Header] = [i \in 1..Len(@) |-> NIL]]

\* clear: header.clear(); the entries lose their last Arc
ClrHeader(t) ==
    /\ At(t, "clr_header")
    /\ links' = DropLinks(header_clear, t)
    /\ keyOf' = DropKeys(header_clear, t)
    /\ drawn' = DropDrawn(header_clear, t)
    /\ loc' = [loc EXCEPT ![t].pc = "clr_fields"]
    /\ UNCHANGED <<height, size, rng, writer, readers, abs, nIns, nErs, drv>>

\* clear: self.height = 1; self.size = 0
ClrFields(t) ==
    /\ At(t, "clr_fields")
    /\ height' = 1
    /\ size' = 0
    /\ loc' = [loc EXCEPT ![t].pc = "ret"]
    /\ UNCHANGED <<links, keyOf, rng, writer, readers, hist, drv>>

\* SkipList::contains, SkipList::size, SkipList::empty: the read lock is taken and
\* the inner method evaluated under it; r is a function of the key giving
\* <<bool result, integer result>>
StartRead(t, op, k, exp) ==
    /\ At(t, "idle")
    /\ CanRead
    /\ readers' = readers \cup {t}
    /\ loc' = [loc EXCEPT ![t] =
                [IdleLoc EXCEPT !.pc = "ret", !.op = op, !.key = k, !.exp = exp,
                                !.ret = IF op = "contains" THEN contains(k)
                                        ELSE IF op = "empty" THEN empty ELSE FALSE,
                                !.retn = IF op = "size" THEN size ELSE 0]]
    /\ UNCHANGED <<list, writer, hist>>

IsWrite(op) == op \in {"insert", "erase", "clear"}

\* the call returns: its guard and its locals are dropped, the caller has the result
Return(t) ==
    /\ At(t, "ret")
    /\ writer' = IF IsWrite(loc[t].op) THEN NoThread ELSE writer
    /\ readers' = readers \ {t}
    /\ links' = IF Held(loc[t]) = {} THEN links ELSE DropLinks(links, t)
    /\ keyOf' = IF Held(loc[t]) = {} THEN keyOf ELSE DropKeys(links, t)
    /\ drawn' = IF Held(loc[t]) = {} THEN drawn ELSE DropDrawn(links, t)
    /\ loc' = [loc EXCEPT ![t] = IdleLoc]
    /\ abs' = IF loc[t].op = "insert" /\ loc[t].ret THEN abs \cup {loc[t].key}
              ELSE IF loc[t].op = "erase" /\ loc[t].ret THEN abs \ {loc[t].key}
              ELSE IF loc[t].op = "clear" THEN {}
              ELSE abs
    /\ nIns' = IF loc[t].op = "insert" /\ loc[t].ret THEN nIns + 1
               ELSE IF loc[t].op = "clear" THEN 0 ELSE nIns
    /\ nErs' = IF loc[t].op = "erase" /\ loc[t].ret THEN nErs + 1
               ELSE IF loc[t].op = "clear" THEN 0 ELSE nErs
    /\ UNCHANGED <<height, size, rng, drv>>

\* the steps of a call once it holds the list lock
Step(t) ==
    \/ InsTrace(t) \/ InsDraw(t) \/ InsRead(t) \/ InsWrite(t) \/ InsSize(t)
    \/ EraTrace(t) \/ EraUnlink(t) \/ EraWrite(t) \/ EraSize(t) \/ EraTrim(t)
    \/ ClrHeader(t) \/ ClrFields(t)
    \/ Return(t)

\* ---------------------------------------------------------------- any callers
\* the oracle's stream is cut at MaxDraws: no insert starts that could pass it
BeginInsert(t, k) ==
    /\ rng + MAX_HEIGHT - 1 <= MaxDraws
    /\ StartInsert(t, k, FALSE)
    /\ UNCHANGED drv
BeginErase(t, k) == StartErase(t, k, FALSE) /\ UNCHANGED drv
BeginClear(t) == StartClear(t) /\ UNCHANGED drv
BeginContains(t, k) == StartRead(t, "contains", k, FALSE) /\ UNCHANGED drv
BeginSize(t) == StartRead(t, "size", 0, FALSE) /\ UNCHANGED drv
BeginEmpty(t) == StartRead(t, "empty", 0, FALSE) /\ UNCHANGED drv

Next ==
    \E t \in Threads :
        \/ \E k \in Keys : BeginInsert(t, k) \/ BeginErase(t, k) \/ BeginContains(t, k)
        \/ BeginClear(t)
        \/ BeginSize(t)
        \/ BeginEmpty(t)
        \/ Step(t)

Spec == Init /\ [][Next]_vars

\* callers that mutate only: the list goes through the same states as under Spec,
\* as contains, size and empty write nothing but their caller's result
NextMutate ==
    \E t \in Threads :
        \/ \E k \in Keys : BeginInsert(t, k) \/ BeginErase(t, k)
        \/ BeginClear(t)
        \/ InsTrace(t) \/ InsDraw(t) \/ InsRead(t) \/ InsWrite(t) \/ InsSize(t)
        \/ EraTrace(t) \/ EraUnlink(t) \/ EraWrite(t) \/ EraSize(t) \/ EraTrim(t)
        \/ ClrHeader(t) \/ ClrFields(t)
        \/ Return(t)

SpecMutate == Init /\ [][NextMutate]_vars

\* callers of insert, erase and contains only: erase's trim loop is what moves
\* the occupied height away from the tallest entry, contains is what calls find
NextLookup ==
    \E t \in Threads :
        \/ \E k \in Keys : BeginInsert(t, k) \/ BeginErase(t, k) \/ BeginContains(t, k)
        \/ InsTrace(t) \/ InsDraw(t) \/ InsRead(t) \/ InsWrite(t) \/ InsSize(t)
        \/ EraTrace(t) \/ EraUnlink(t) \/ EraWrite(t) \/ EraSize(t) \/ EraTrim(t)
        \/ Return(t)

SpecLookup == Init /\ [][NextLookup]_vars

\* a thread inside a call is scheduled again and again: no call waits for
\* anything but the list lock, which it holds from its first step on
SpecFair == Spec /\ \A t \in Threads : WF_vars(Step(t))

\* ---------------------------------------------------------------- range scenarios
FirstOf(t) == (t - 1) * RangeSize + 1

\* concurrent_insert_test: worker t inserts its range, in order, into the empty list
BeginRangeInsert(t) ==
    /\ pos[t] < RangeSize
    /\ StartInsert(t, FirstOf(t) + pos[t], TRUE)
    /\ pos' = [pos EXCEPT ![t] = @ + 1]
    /\ UNCHANGED mine

NextInsert ==
    \E t \in Threads :
        \/ BeginRangeInsert(t)
        \/ InsTrace(t) \/ InsDraw(t) \/ InsRead(t) \/ InsWrite(t) \/ InsSize(t)
        \/ Return(t)

SpecInsert == Init /\ [][NextInsert]_vars

\* every worker has made and finished all the calls of its range
WorkersDone == \A t \in Threads : pos[t] = RangeSize /\ At(t, "idle")

\* concurrent_erase_test: the main thread inserts PreKeys, in order, before it
\* spawns the workers
BeginPreInsert ==
    /\ pos[Main] < Cardinality(PreKeys)
    /\ StartInsert(Main, pos[Main] + 1, TRUE)
    /\ pos' = [pos EXCEPT ![Main] = @ + 1]
    /\ UNCHANGED mine

Spawned == pos[Main] = Cardinality(PreKeys) /\ At(Main, "idle")

\* concurrent_erase_test: worker t erases its range, in order
BeginRangeErase(t) ==
    /\ Spawned
    /\ pos[t] < RangeSize
    /\ StartErase(t, FirstOf(t) + pos[t], TRUE)
    /\ pos' = [pos EXCEPT ![t] = @ + 1]
    /\ UNCHANGED mine

NextErase ==
    \/ BeginPreInsert
    \/ InsTrace(Main) \/ InsDraw(Main) \/ InsRead(Main) \/ InsWrite(Main) \/ InsSize(Main)
    \/ \E t \in Threads :
        \/ BeginRangeErase(t)
        \/ EraTrace(t) \/ EraUnlink(t) \/ EraWrite(t) \/ EraSize(t) \/ EraTrim(t)
    \/ \E t \in AllThreads : Return(t)

SpecErase == Init /\ [][NextErase]_vars

\* ---------------------------------------------------------------- mixed scenario
\* concurrent_insert_and_erase_test: worker t calls contains, insert and erase on
\* keys of its own range only; mine[t] is the set its calls alone would leave and
\* exp the result its call would have on that set
BeginOwnInsert(t, k) ==
    /\ pos[t] < MaxCalls
    /\ StartInsert(t, k, k \notin mine[t])
    /\ pos' = [pos EXCEPT ![t] = @ + 1]
    /\ mine' = [mine EXCEPT ![t] = @ \cup {k}]

BeginOwnErase(t, k) ==
    /\ pos[t] < MaxCalls
    /\ StartErase(t, k, k \in mine[t])
    /\ pos' = [pos EXCEPT ![t] = @ + 1]
    /\ mine' = [mine EXCEPT ![t] = @ \ {k}]

BeginOwnContains(t, k) ==
    /\ pos[t] < MaxCalls
    /\ StartRead(t, "contains", k, k \in mine[t])
    /\ pos' = [pos EXCEPT ![t] = @ + 1]
    /\ UNCHANGED mine

NextMixed ==
    \E t \in Threads :
        \/ \E k \in Own(t) :
            BeginOwnInsert(t, k) \/ BeginOwnErase(t, k) \/ BeginOwnContains(t, k)
        \/ InsTrace(t) \/ InsDraw(t) \/ InsRead(t) \/ InsWrite(t) \/ InsSize(t)
        \/ EraTrace(t) \/ EraUnlink(t) \/ EraWrite(t) \/ EraSize(t) \/ EraTrim(t)
        \/ Return(t)

SpecMixed == Init /\ [][NextMixed]_vars

\* ---------------------------------------------------------------- vocabulary
\* the entry nodes met walking level L from the header (at most one turn per slot)
RECURSIVE ChainFrom(_, _, _)
ChainFrom(n, L, fuel) ==
    LET nx == next(n, L)
    IN  IF fuel = 0 \/ nx = None \/ is_nil(nx) THEN <<>>
        ELSE <<nx>> \o ChainFrom(nx, L, fuel - 1)

Chain(L) == ChainFrom(Header, L, Cardinality(NodeIds) + 1)

ChainKeys(L) ==
    LET c == Chain(L)
    IN  [i \in 1..Len(c) |-> keyOf[c[i]]]

Increasing(s) == \A i \in 1..(Len(s) - 1) : s[i] < s[i + 1]

IncreasingKeys(L) ==
    LET s == ChainKeys(L)
    IN  Increasing(s)

\* no node holds a reference to d
Unreferenced(d) == \A n \in Nodes : d \notin Range(links[n])

\* thread t has the result of a call of op in hand and has not returned yet
Returning(t, op) == At(t, "ret") /\ loc[t].op = op

\* the nodes of sequence c that have a slot for level L, in c's order
RECURSIVE Taller(_, _)
Taller(c, L) ==
    IF c = <<>> THEN <<>>
    ELSE IF Len(links[Head(c)]) > L THEN <<Head(c)>> \o Taller(Tail(c), L)
    ELSE Taller(Tail(c), L)

\* no call is inside insert, erase or clear
NoMutation == writer = NoThread /\ \A u \in AllThreads : ~IsWrite(loc[u].op)

\* the list as it is between mutations: size counts level 0, and every entry is
\* linked at each of its levels
Whole ==
    /\ size = Len(Chain(0))
    /\ \A L \in Levels : Chain(L) = Taller(Chain(0), L)

FreshLinks == [n \in Nodes |-> IF n = Header THEN HeaderLinks ELSE <<>>]

\* ---------------------------------------------------------------- C1
\* C1: the list behaves as a set of keys: whenever no mutation is in progress,
\* contains(k) holds exactly for the keys whose insert returned true and that no
\* erase or clear has removed since, and every contains call returns that answer.
C1_SetOfKeys ==
    /\ writer = NoThread => Members = abs
    /\ \A t \in AllThreads :
        Returning(t, "contains") => (loc[t].ret <=> loc[t].key \in abs)

\* a contains call answers false after an erase has returned true, other keys present
C1_Witness ==
    \E t \in AllThreads :
        /\ Returning(t, "contains")
        /\ ~loc[t].ret
        /\ nErs >= 1
        /\ abs # {}

\* ---------------------------------------------------------------- C2
\* C2: in every state, also between the steps of a mutation, the keys met walking
\* level 0 from the header are strictly increasing, so no key occurs twice.
C2_Level0Increasing == IncreasingKeys(0)

\* three entries are on level 0 after an erase has taken one out
C2_Witness == Len(Chain(0)) >= 3 /\ nErs >= 1

\* ---------------------------------------------------------------- C3
\* C3: insert(k) returns true exactly when k was not in the list when the call
\* began; size has then grown by one, and is unchanged when it returns false.
C3_InsertResult ==
    \A t \in AllThreads :
        Returning(t, "insert") =>
            /\ loc[t].ret <=> loc[t].key \notin loc[t].preKeys
            /\ size = loc[t].preSize + (IF loc[t].ret THEN 1 ELSE 0)

\* an insert of a key already present returns false, with other keys in the list
C3_Witness ==
    \E t \in AllThreads :
        /\ Returning(t, "insert")
        /\ ~loc[t].ret
        /\ loc[t].preSize >= 2

\* ---------------------------------------------------------------- C4
\* C4: erase(k) returns true exactly when k was in the list when the call began;
\* after a true result no node refers to the erased node at any level and every
\* other key has kept its membership.
C4_EraseResult ==
    \A t \in AllThreads :
        Returning(t, "erase") =>
            /\ loc[t].ret <=> loc[t].key \in loc[t].preKeys
            /\ loc[t].ret =>
                /\ Unreferenced(loc[t].del)
                /\ Members = loc[t].preKeys \ {loc[t].key}

\* an erase returns true for a node of two or more levels, other keys in the list
C4_Witness ==
    \E t \in AllThreads :
        /\ Returning(t, "erase")
        /\ loc[t].ret
        /\ Len(links[loc[t].del]) >= 2
        /\ loc[t].preSize >= 3

\* ---------------------------------------------------------------- C5
\* C5: whenever no mutation is in progress, size is the number of entry nodes on
\* level 0 and equals the inserts that returned true minus the erases that returned
\* true since construction or the last clear; a size call returns that number and
\* an empty call returns true exactly when it is 0.
C5_SizeCounts ==
    /\ writer = NoThread => size = Len(Chain(0)) /\ size = nIns - nErs
    /\ \A t \in AllThreads :
        /\ Returning(t, "size") =>
            loc[t].retn = Len(Chain(0)) /\ loc[t].retn = nIns - nErs
        /\ Returning(t, "empty") =>
            (loc[t].ret <=> size = 0) /\ (loc[t].ret <=> Chain(0) = <<>>)

\* a size call returns 2 after three inserts and one erase returned true
C5_Witness ==
    \E t \in AllThreads :
        /\ Returning(t, "size")
        /\ loc[t].retn = 2
        /\ nIns = 3
        /\ nErs = 1

\* ---------------------------------------------------------------- C6
\* C6: when clear returns, the header has no successor at any of the MAX_HEIGHT
\* levels, the occupied height is 1, size is 0, empty holds, contains is false for
\* every key, and nodes, height and size are those of a newly constructed list.
C6_ClearResets ==
    \A t \in AllThreads :
        Returning(t, "clear") =>
            /\ \A L \in Levels : is_nil(next(Header, L))
            /\ height = 1
            /\ size = 0
            /\ empty
            /\ Members = {}
            /\ links = FreshLinks
            /\ keyOf = [n \in NodeIds |-> 0]

\* a clear returns on a list that held entries on more than one level
C6_Witness ==
    \E t \in AllThreads :
        /\ Returning(t, "clear")
        /\ loc[t].preSize >= 2
        /\ loc[t].preHeight >= 2

\* ---------------------------------------------------------------- C7
\* C7: when the workers insert pairwise disjoint key ranges into an empty list,
\* every insert returns true under every interleaving, and once all have finished
\* size is NumThreads * RangeSize and contains holds for every key of the ranges.
C7_DisjointInserts ==
    /\ \A t \in Threads : Returning(t, "insert") => loc[t].ret
    /\ WorkersDone =>
        /\ size = NumThreads * RangeSize
        /\ \A k \in RangeKeys : contains(k)

\* all workers have finished and some entry has all MAX_HEIGHT levels
C7_Witness ==
    /\ WorkersDone
    /\ \E n \in NodeIds : Len(links[n]) = MAX_HEIGHT

\* ---------------------------------------------------------------- C8
\* C8: when the workers erase pairwise disjoint ranges of the pre-inserted keys,
\* every erase returns true under every interleaving, and once all have finished
\* exactly the keys outside the ranges remain and size is their number.
C8_DisjointErases ==
    /\ \A t \in Threads : Returning(t, "erase") => loc[t].ret
    /\ Spawned /\ WorkersDone =>
        /\ Members = PreKeys \ RangeKeys
        /\ size = Cardinality(PreKeys) - NumThreads * RangeSize

\* all workers have finished after erasing from a list that had entries of two or
\* more levels, and a spare key is left
C8_Witness ==
    /\ Spawned
    /\ WorkersDone
    /\ nErs = NumThreads * RangeSize
    /\ rng > Cardinality(PreKeys)
    /\ size >= 1

\* ---------------------------------------------------------------- C9
\* C9: when the workers run mixed contains, insert and erase calls on pairwise
\* disjoint key sets, each call returns what it would return had its thread run
\* alone on its own keys, and whenever a worker is between calls and no mutation
\* is in progress the membership of its keys is what its own calls alone leave.
C9_OwnKeysOnly ==
    \A t \in Threads :
        /\ At(t, "ret") => (loc[t].ret <=> loc[t].exp)
        /\ At(t, "idle") /\ writer = NoThread => Members \cap Own(t) = mine[t]

\* a worker's erase returns true while the other worker has a key of its own in
\* the list, each having made two calls or more
C9_Witness ==
    \E t \in Threads : \E u \in Threads \ {t} :
        /\ Returning(t, "erase")
        /\ loc[t].ret
        /\ pos[t] >= 2
        /\ pos[u] >= 2
        /\ mine[u] # {}

\* ---------------------------------------------------------------- C10
\* C10: while a thread holds the read lock for contains, size or empty, no
\* insert, erase or clear is in progress, the list is whole (size counts the
\* level-0 chain, every entry is linked at each of its levels), and the result
\* the reader got is the one the keys inserted and not removed so far give.
C10_NoTornReads ==
    \A t \in AllThreads :
        t \in readers =>
            /\ NoMutation
            /\ Whole
            /\ Returning(t, "contains") => (loc[t].ret <=> loc[t].key \in abs)
            /\ Returning(t, "size") => loc[t].retn = Cardinality(abs)
            /\ Returning(t, "empty") => (loc[t].ret <=> abs = {})

\* two threads hold the read lock at once on a list of several levels from which
\* a key has been erased, one with a contains that found its key
C10_Witness ==
    \E t \in Threads : \E u \in Threads \ {t} :
        /\ {t, u} \subseteq readers
        /\ Returning(t, "contains")
        /\ loc[t].ret
        /\ Returning(u, "size")
        /\ \E n \in NodeIds : Len(links[n]) >= 2
        /\ nErs >= 1
        /\ size >= 2

\* ---------------------------------------------------------------- C11
\* the nodes find locks (cur.read(), next.read()) in its loop at one level
RECURSIVE find_walk_locks(_, _, _)
find_walk_locks(cur, level, key) ==
    LET nx == next(cur, level)
    IN  IF nx = None THEN {cur}
        ELSE IF compare_key(nx, key) = "Less"
        THEN {cur, nx} \cup find_walk_locks(nx, level, key)
        ELSE {cur, nx}

\* the nodes find(key) locks, from level `level` and node cur down
RECURSIVE find_locks(_, _, _)
find_locks(level, cur, key) ==
    IF level < 0 THEN {}
    ELSE LET w == find_walk(cur, level, key)
         IN  find_walk_locks(cur, level, key)
             \cup (IF w.hit # None THEN {} ELSE find_locks(level - 1, w.cur, key))

\* the entry and header nodes a contains(key) call visits
contains_visits(key) == find_locks(height - 1, Header, key) \cap Nodes

\* the nodes erase(key) writes or removes: the predecessors that point at the
\* node holding key, and that node
erase_touches(key) ==
    LET r == trace(key)
        d == next(r.cur, 0)
    IN  IF ~r.found THEN {}
        ELSE {d} \cup {pred_at(r.update, i) :
                        i \in {j \in Levels : next(pred_at(r.update, j), j) = d}}

\* C11: a contains call in progress never makes an erase wait that touches only
\* nodes the lookup does not visit: whenever a thread is inside contains and an
\* idle thread's erase(k) would write and remove only nodes outside the lookup's
\* walk, that erase can take its lock and start.
C11_LookupBlocksNoDisjointErase ==
    \A t \in Threads : \A u \in Threads \ {t} : \A k \in Keys :
        /\ t \in readers
        /\ loc[t].op = "contains"
        /\ At(u, "idle")
        /\ erase_touches(k) # {}
        /\ erase_touches(k) \cap contains_visits(loc[t].key) = {}
        => ENABLED BeginErase(u, k)

\* ---------------------------------------------------------------- C12
\* the node a mutation in progress has not linked at level L yet (insert goes up
\* from level 0) or has unlinked at level L already (erase comes down from the top)
Pending(L) ==
    {loc[t].newn : t \in {u \in AllThreads :
        loc[u].pc \in {"ins_read", "ins_write"} /\ loc[u].lvl <= L}}
    \cup {loc[t].del : t \in {u \in AllThreads :
        loc[u].pc \in {"era_unlink", "era_write"} /\ loc[u].lvl < L}}

Without(c, S) == SelectSeq(c, LAMBDA n : n \notin S)

C13_HeightInRange ==
    /\ height \in 1..MAX_HEIGHT
    /\ \A flips \in Flips : random_height(flips) \in 1..MAX_HEIGHT
    /\ \A n \in NodeIds : drawn[n] \in 0..MAX_HEIGHT
    /\ \A t \in AllThreads :
        loc[t].pc \in {"ins_read", "ins_write", "ins_size"} =>
            /\ loc[t].newh \in 1..MAX_HEIGHT
            /\ loc[t].newh <= height

\* an erase returns having lowered the occupied height from MAX_HEIGHT, which an
\* insert with every draw successful had raised it to, down to 1
C13_Witness ==
    \E t \in AllThreads :
        /\ Returning(t, "erase")
        /\ loc[t].ret
        /\ loc[t].preHeight = MAX_HEIGHT
        /\ height = 1

\* ---------------------------------------------------------------- C14
\* the greatest height of an entry on the level-0 chain (0 for the empty list)
RECURSIVE MaxLen(_)
MaxLen(c) == IF c = <<>> THEN 0 ELSE Max(Len(links[Head(c)]), MaxLen(Tail(c)))

TallestEntry == MaxLen(Chain(0))

\* C14: when an erase returns true, the occupied height is at most the greatest
\* height of an entry still in the list, and at most 1 when the list is empty.
C14_ErasedDownToTallest ==
    \A t \in AllThreads :
        Returning(t, "erase") /\ loc[t].ret => height <= Max(1, TallestEntry)

\* ---------------------------------------------------------------- C15
\* C15: every write of a predecessor's level-i slot finds in that slot the
\* reference the operation read from it: when insert is about to point the
\* predecessor at the new node, the slot still holds the successor insert copied
\* into the new node; when erase is about to write, the slot still holds the node
\* being removed, and that node's successor is the one erase read.  No state has
\* a slot changed between the read and the write, the case the retry is for, and
\* no update is lost: between mutations the keys in the list are those inserted
\* and not removed.
C15_WritesOnObservedSlot ==
    /\ \A t \in AllThreads :
        LET i == loc[t].lvl
        IN  /\ At(t, "ins_write") =>
                /\ next(pred_at(loc[t].update, i), i) # None
                /\ next(pred_at(loc[t].update, i), i) = next(loc[t].newn, i)
            /\ At(t, "era_write") =>
                /\ next(pred_at(loc[t].update, i), i) = loc[t].del
                /\ next(loc[t].del, i) = loc[t].dnx
    /\ writer = NoThread => Members = abs /\ size = Cardinality(abs)

\* after an erase has returned true, an insert is about to write the level-1 slot
\* of an entry node, a predecessor an earlier insert wrote
C15_Witness ==
    \E t \in AllThreads :
        /\ At(t, "ins_write")
        /\ loc[t].lvl = 1
        /\ pred_at(loc[t].update, 1) \in NodeIds
        /\ nErs >= 1

\* ---------------------------------------------------------------- C16
\* C16: publish after populate.  In every state, also between the writes of an
\* insert, a node some node refers to at level i has its own level-i slot set.
\* When insert is about to point predecessor[i] at the new node, the new node's
\* level-i slot is already set, to the successor the predecessor holds, and no
\* node refers to the new node at level i yet; at every level below, already
\* published, the predecessor refers to the new node and the new node to a
\* successor with a greater key or to Nil.
C16_PublishAfterPopulate ==
    /\ \A n \in Nodes : \A i \in Levels :
        next(n, i) \in NodeIds => next(next(n, i), i) # None
    /\ \A t \in AllThreads :
        /\ At(t, "ins_write") =>
            /\ next(loc[t].newn, loc[t].lvl) # None
            /\ next(loc[t].newn, loc[t].lvl)
                 = next(pred_at(loc[t].update, loc[t].lvl), loc[t].lvl)
            /\ \A n \in Nodes : next(n, loc[t].lvl) # loc[t].newn
        /\ loc[t].pc \in {"ins_read", "ins_write", "ins_size"} =>
            \A j \in 0..(loc[t].lvl - 1) :
                /\ next(pred_at(loc[t].update, j), j) = loc[t].newn
                /\ compare_key(next(loc[t].newn, j), loc[t].key) \in {"Greater", "None"}
                /\ next(loc[t].newn, j) # None

\* an insert is about to publish its node at level 1 between the header or an
\* entry and an entry: the new node's level-1 slot refers to that entry already
C16_Witness ==
    \E t \in AllThreads :
        /\ At(t, "ins_write")
        /\ loc[t].lvl = 1
        /\ next(loc[t].newn, 1) \in NodeIds
        /\ next(loc[t].newn, 0) \in NodeIds

\* ---------------------------------------------------------------- C17
\* the occupied height when an insert that drew newh returns true
InsertRaised(t) == height = Max(loc[t].preHeight, loc[t].newh)

\* C17: whenever no mutation is in progress the occupied height is at least the
\* height of every entry in the list, so that no level at or above it holds an
\* entry; and when an insert that drew height h returns true, the occupied height
\* is the greater of h and the occupied height before the call.
C17_HeightCoversEntries ==
    /\ writer = NoThread =>
        /\ TallestEntry <= height
        /\ \A L \in Levels : L >= height => Chain(L) = <<>>
    /\ \A t \in AllThreads : Returning(t, "insert") /\ loc[t].ret => InsertRaised(t)

\* the part of C17 that is about insert alone
C17_InsertPart ==
    \A t \in AllThreads : Returning(t, "insert") /\ loc[t].ret => InsertRaised(t)

\* ---------------------------------------------------------------- C18
\* the chain of level L from the header ends in Nil and meets no node twice
EndsInNil(L) ==
    LET c == Chain(L)
        last == IF c = <<>> THEN Header ELSE c[Len(c)]
    IN  /\ is_nil(next(last, L))
        /\ \A i \in 1..Len(c) : \A j \in 1..Len(c) : c[i] = c[j] => i = j

\* no lock can be waited for in a cycle: a thread inside insert, erase or clear
\* is the only thread inside a call, so the node locks and the oracle's lock it
\* takes are free (threads inside contains, size and empty take read locks
\* only), and the two node locks insert holds at once are of different nodes
NoLockCycle ==
    \A t \in AllThreads :
        /\ ~At(t, "idle") /\ IsWrite(loc[t].op) =>
            \A u \in AllThreads \ {t} : At(u, "idle")
        /\ At(t, "ins_read") => pred_at(loc[t].update, loc[t].lvl) # loc[t].newn

C18_Safe ==
    /\ NoLockCycle
    /\ \A L \in Levels : EndsInNil(L)
    /\ \A t \in AllThreads : ~At(t, "panic")

\* C18: under fair scheduling every call that has started returns: a thread
\* inside a call always has a next step and its loops end, the loop of erase that
\* lowers the occupied height included.  No lock is waited for in a cycle, no
\* call ends in a panic (the expect and the `size -= 1` of erase), and every
\* level's chain ends in Nil without a cycle, so the walks of trace and find end.
C18_CallsComplete ==
    /\ []C18_Safe
    /\ \A t \in Threads : (~At(t, "idle")) ~> At(t, "idle")

\* an erase returns after its last loop has lowered the occupied height by two,
\* entries still in the list
C18_Witness ==
    \E t \in AllThreads :
        /\ Returning(t, "erase")
        /\ loc[t].ret
        /\ loc[t].preHeight - height >= 2
        /\ size >= 2

\* ---------------------------------------------------------------- C19
\* the rightmost node of the level-L chain with a key less than k, or the header
RightmostLess(L, k) ==
    LET c == Chain(L)
        S == {i \in 1..Len(c) : keyOf[c[i]] < k}
    IN  IF S = {} THEN Header ELSE c[CHOOSE i \in S : \A j \in S : j <= i]

\* r is what trace(k) has to return in this state
TraceRight(k, r) ==
    /\ Len(r.update) = MAX_HEIGHT
    /\ \A L \in Levels : pred_at(r.update, L) = RightmostLess(L, k)
    /\ r.cur = pred_at(r.update, 0)
    /\ r.found <=> k \in Range(ChainKeys(0))
    /\ r.found =>
        /\ next(r.cur, 0) \in NodeIds
        /\ keyOf[next(r.cur, 0)] = k

\* thread t has the result of trace in its locals and has written nothing yet
Traced(t) ==
    \/ At(t, "ins_draw")
    \/ At(t, "era_unlink") /\ loc[t].lvl = MAX_HEIGHT - 1

\* C19: trace(key) returns, for each of the MAX_HEIGHT levels, those at or above
\* the occupied height included, the rightmost node of that level with a key
\* less than key, or the header; found is true exactly when key is in the list,
\* and then the level-0 successor of the level-0 predecessor holds key.  This
\* holds of the result insert and erase get from their call of trace, and of
\* trace for every key whenever no mutation is in progress.
C19_TracePredecessors ==
    /\ \A t \in AllThreads :
        Traced(t) =>
            TraceRight(loc[t].key,
                       [update |-> loc[t].update, cur |-> loc[t].cur, found |-> loc[t].found])
    /\ writer = NoThread => \A k \in Keys : TraceRight(k, trace(k))

\* erase has traced a key that is in the list: its level-1 predecessor is an
\* entry although the occupied height is 1
C19_Witness ==
    \E t \in AllThreads :
        /\ At(t, "era_unlink")
        /\ loc[t].lvl = MAX_HEIGHT - 1
        /\ loc[t].found
        /\ height = 1
        /\ pred_at(loc[t].update, 1) \in NodeIds

\* ---------------------------------------------------------------- C20
\* the nodes an insert in progress is still filling the slots of
UnderConstruction ==
    {loc[t].newn : t \in {u \in AllThreads : loc[u].pc \in {"ins_read", "ins_write"}}}

\* C20: an entry never has more slots than the height drawn for it, so no
\* reference is ever stored in it at a level at or above that height; once its
\* insert has written its last level it has exactly that many slots, and keeps
\* them for as long as the node exists, whatever other keys are inserted and
\* erased (also after it has been unlinked and while an erase still holds it).
C20_SlotsFixed ==
    /\ \A n \in NodeIds :
        /\ Len(links[n]) <= drawn[n]
        /\ keyOf[n] # 0 /\ n \notin UnderConstruction => Len(links[n]) = drawn[n]
        /\ keyOf[n] # 0 => drawn[n] \in 1..MAX_HEIGHT
    /\ \A t \in AllThreads :
        Returning(t, "insert") /\ loc[t].ret =>
            /\ Len(links[loc[t].newn]) = loc[t].newh
            /\ drawn[loc[t].newn] = loc[t].newh

\* no mutation is in progress; an entry of height 1 precedes an entry of
\* MAX_HEIGHT levels, and an erase has returned true
C20_Witness ==
    /\ writer = NoThread
    /\ nErs >= 1
    /\ \E n \in NodeIds : \E m \in NodeIds :
        /\ keyOf[n] # 0
        /\ keyOf[n] < keyOf[m]
        /\ Len(links[n]) = 1
        /\ Len(links[m]) = MAX_HEIGHT

\* ---------------------------------------------------------------- C21
\* the call with locals l reports a no-op or only queries
NoOpCall(l) ==
    \/ l.op \in {"contains", "size", "empty"}
    \/ l.op \in {"insert", "erase"} /\ l.pc = "ret" /\ ~l.ret

\* this step is one of a call of thread t that reports a no-op or only queries:
\* the step that starts a call, a step that ends in such a call's result, or the
\* return of such a call
NoOpStep(t) ==
    /\ loc'[t] # loc[t]
    /\ \/ At(t, "idle")
       \/ NoOpCall(loc[t])
       \/ NoOpCall(loc'[t])

\* C21: a call that reports a no-op or only queries changes nothing.  No step
\* of an insert that returns false, of an erase that returns false, or of
\* contains, size or empty changes a forward reference, the nodes and their
\* keys, the occupied height, the entry count or the number of draws made from
\* the height oracle (a rejected insert draws no height), and dropping the
\* call's locals at its return frees no node.
C21_NoOpsChangeNothing ==
    [][\A t \in AllThreads : NoOpStep(t) => UNCHANGED list]_vars

\* an erase of a key that is not in the list is about to return false; the list
\* holds entries on more than one level
C21_Witness ==
    \E t \in AllThreads :
        /\ Returning(t, "erase")
        /\ ~loc[t].ret
        /\ size >= 2
        /\ Len(Chain(1)) >= 1
        /\ nIns >= 3

\* ---------------------------------------------------------------- C22
\* the node of the list that holds key k, None when no node does
NodeOf(k) ==
    IF \E n \in Range(Chain(0)) : keyOf[n] = k
    THEN CHOOSE n \in Range(Chain(0)) : keyOf[n] = k
    ELSE None

\* C22: the answer of contains does not depend on the occupied height.  In
\* every state in which no mutation is in progress, and for every key, find,
\* which starts at level height - 1, finds a node exactly when trace, which
\* walks all MAX_HEIGHT levels, reports a match, also when height is below or
\* above the height of the tallest entry; and the answer a contains call
\* returns is trace's answer for its key.
C22_FindAgreesWithTrace ==
    /\ writer = NoThread => \A k \in Keys : contains(k) <=> trace(k).found
    /\ \A t \in AllThreads :
        Returning(t, "contains") => (loc[t].ret <=> trace(loc[t].key).found)

\* contains answers true for a key whose node is taller than the occupied
\* height: find started below the node's top level
C22_Witness ==
    \E t \in AllThreads :
        /\ Returning(t, "contains")
        /\ loc[t].ret
        /\ NodeOf(loc[t].key) # None
        /\ height < Len(links[NodeOf(loc[t].key)])

\* contains answers for a list whose occupied height is above its tallest entry
C22_AboveTallest ==
    \E t \in AllThreads :
        /\ Returning(t, "contains")
        /\ size >= 1
        /\ height > TallestEntry

====
